---------------------------- MODULE Spec2Model ----------------------------
(***************************************************************************)
(* A model of PyJFuzz's JSONFactory (src/pyjfuzz.py): the session object,  *)
(* its class-level attributes, initWithJSON, ffactor, fuzz and the         *)
(* recursive walker with its type mutators, and sensible_behavior.         *)
(*                                                                         *)
(* Python values are records of one shape (k is the Python type):          *)
(*   NoneType  k = "null"                                                  *)
(*   bool      k = "bool",   n in {0, 1}                                   *)
(*   int/long  k = "int" / "long", n = sign, mag = magnitude as limbs      *)
(*             (little endian, base Base, no leading zero limb), so that   *)
(*             Python's unbounded integers are computed exactly            *)
(*   float     k = "float",  c = <<repr>> ("nan", "inf", "-inf", "0.0",    *)
(*             "1.0")                                                      *)
(*   unicode   k = "unicode", c = the characters                           *)
(*   str       k = "str",     c = the characters                           *)
(*   list      k = "list",   items = the elements                          *)
(*   dict      k = "dict",   f = the mapping from key to value             *)
(* Behavior weights are counted in tenths (100 is the weight 10).          *)
(*                                                                         *)
(* A document is given to initWithJSON as the value json.loads makes of    *)
(* its text, and fuzz returns the value that json.dumps then renders.      *)
(* The walker visits the keys of a dict in any order.  The output of the   *)
(* radamsa process and the draws of random are taken from small sets.      *)
(***************************************************************************)
EXTENDS Integers, Sequences, FiniteSets, TLC

VARIABLES
    obj,        \* session name -> the instance's __dict__ (key -> value)
    live,       \* the session names bound to a constructed instance
    classTech,  \* the class attribute JSONFactory.tech (one list object)
    behavior,   \* the class attribute JSONFactory.behavior (one dict object)
    input,      \* session name -> the document parsed by the last initWithJSON
    returned,   \* session name -> results fuzz has returned since initWithJSON
    last        \* the outcome of the last call: operation, session, error, result, draws

vars == <<obj, live, classTech, behavior, input, returned, last>>

---------------------------------------------------------------------------
(* Values *)

EmptyF == [x \in {} |-> 0]

MkV(k) == [k |-> k, n |-> 0, mag |-> <<>>, c |-> <<>>, items |-> <<>>, f |-> EmptyF]

VNull == MkV("null")
VBool(b) == [MkV("bool") EXCEPT !.n = IF b THEN 1 ELSE 0]
VFloat(r) == [MkV("float") EXCEPT !.c = <<r>>]
VUnicode(chars) == [MkV("unicode") EXCEPT !.c = chars]
VStr(chars) == [MkV("str") EXCEPT !.c = chars]
VList(its) == [MkV("list") EXCEPT !.items = its]
VDict(fn) == [MkV("dict") EXCEPT !.f = fn]
\* a reference to an object held by the class: "tech", "techniques", "behavior"
VRef(name) == [MkV("ref") EXCEPT !.c = <<name>>]
\* list(<a str>): its characters; and the list of names params.split(",") gives
VLetters(chars) == [MkV("letters") EXCEPT !.c = chars]
VNames(names) == [MkV("names") EXCEPT !.c = names]
\* an exception raised in place of a value
VError(name) == [MkV("error") EXCEPT !.c = <<name>>]

---------------------------------------------------------------------------
(* Python's unbounded integers: sign and magnitude *)

Base == 64 * 64

RECURSIVE MagNorm(_)
MagNorm(m) ==
    IF m = <<>> THEN <<>>
    ELSE IF m[Len(m)] = 0 THEN MagNorm(SubSeq(m, 1, Len(m) - 1))
    ELSE m

RECURSIVE MagOfNat(_)
MagOfNat(x) == IF x = 0 THEN <<>> ELSE <<x % Base>> \o MagOfNat(x \div Base)

Limb(m, i) == IF i <= Len(m) THEN m[i] ELSE 0

Max2(a, b) == IF a >= b THEN a ELSE b

\* m + d for a small d >= 0
RECURSIVE MagAddSmall(_, _)
MagAddSmall(m, d) ==
    IF d = 0 THEN m
    ELSE IF m = <<>> THEN MagOfNat(d)
    ELSE <<(Head(m) + d) % Base>> \o MagAddSmall(Tail(m), (Head(m) + d) \div Base)

\* m - 1 for m > 0
RECURSIVE MagPred(_)
MagPred(m) ==
    IF Head(m) > 0 THEN <<Head(m) - 1>> \o Tail(m)
    ELSE <<Base - 1>> \o MagPred(Tail(m))

RECURSIVE MagAdd(_, _, _)
MagAdd(a, b, carry) ==
    IF a = <<>> /\ b = <<>> THEN (IF carry = 0 THEN <<>> ELSE <<carry>>)
    ELSE LET t == Limb(a, 1) + Limb(b, 1) + carry
         IN  <<t % Base>> \o MagAdd(IF a = <<>> THEN <<>> ELSE Tail(a),
                                    IF b = <<>> THEN <<>> ELSE Tail(b),
                                    t \div Base)

RECURSIVE MagScale(_, _, _)
MagScale(a, d, carry) ==
    IF a = <<>> THEN (IF carry = 0 THEN <<>> ELSE <<carry>>)
    ELSE LET t == Head(a) * d + carry
         IN  <<t % Base>> \o MagScale(Tail(a), d, t \div Base)

RECURSIVE MagMul(_, _)
MagMul(a, b) ==
    IF a = <<>> THEN <<>>
    ELSE MagNorm(MagAdd(MagScale(b, Head(a), 0),
                        IF Tail(a) = <<>> THEN <<>> ELSE <<0>> \o MagMul(Tail(a), b),
                        0))

\* bitwise operations on two naturals below Base
RECURSIVE NatBits(_, _, _, _)
NatBits(op, x, y, width) ==
    IF width = 0 THEN 0
    ELSE LET bx == x % 2
             by == y % 2
             b  == CASE op = "xor"    -> (bx + by) % 2
                    [] op = "or"     -> IF bx + by > 0 THEN 1 ELSE 0
                    [] op = "andnot" -> IF bx = 1 /\ by = 0 THEN 1 ELSE 0
         IN  b + 2 * NatBits(op, x \div 2, y \div 2, width - 1)

\* limb-wise bitwise operation of a magnitude with a mask
MagBits(op, m, mask) ==
    MagNorm([i \in 1..Max2(Len(m), Len(mask)) |->
                NatBits(op, Limb(m, i), Limb(mask, i), 12)])

\* sys.maxint is 2^63 - 1: a result beyond it is a Python long
FitsInt(m) == Len(m) < 6 \/ (Len(m) = 6 /\ m[6] < 8)

VInt(sign, m) ==
    LET mm == MagNorm(m)
    IN  [MkV(IF FitsInt(mm) THEN "int" ELSE "long") EXCEPT
            !.n = IF mm = <<>> THEN 0 ELSE sign, !.mag = mm]

IntOf(x) == IF x >= 0 THEN VInt(1, MagOfNat(x)) ELSE VInt(-1, MagOfNat(-x))

Mask_ffffff   == <<Base - 1, Base - 1>>
Mask_ff       == <<255>>
Mask_ff000000 == <<0, 0, 255>>

\* x ^ mask, mask >= 0 (a negative x is ~y with y = |x| - 1)
PyXor(x, mask) ==
    IF x.n >= 0 THEN VInt(1, MagBits("xor", x.mag, mask))
    ELSE VInt(-1, MagAddSmall(MagBits("xor", MagPred(x.mag), mask), 1))

\* x | mask, mask >= 0
PyOr(x, mask) ==
    IF x.n >= 0 THEN VInt(1, MagBits("or", x.mag, mask))
    ELSE VInt(-1, MagAddSmall(MagBits("andnot", MagPred(x.mag), mask), 1))

PyNeg(x) == VInt(-x.n, x.mag)

PySquare(x) == VInt(1, MagMul(x.mag, x.mag))

---------------------------------------------------------------------------
(* Truth value and equality of Python values *)

Truthy(v) ==
    CASE v.k = "null" -> FALSE
      [] v.k = "bool" -> v.n = 1
      [] v.k \in {"int", "long"} -> v.n # 0
      [] v.k = "float" -> v.c # <<"0.0">>
      [] v.k \in {"unicode", "str"} -> v.c # <<>>
      [] v.k = "list" -> v.items # <<>>
      [] v.k = "dict" -> DOMAIN v.f # {}
      [] OTHER -> TRUE

IsNumber(v) == v.k \in {"bool", "int", "long", "float"}

\* the number a bool, int or finite float stands for, as an integer value
AsInt(v) ==
    CASE v.k = "bool" -> IntOf(v.n)
      [] v.k = "float" -> IF v.c = <<"1.0">> THEN IntOf(1) ELSE IntOf(0)
      [] OTHER -> [v EXCEPT !.k = "int"]

\* a == b as list.index evaluates it
RECURSIVE PyEq(_, _)
PyEq(a, b) ==
    IF IsNumber(a) /\ IsNumber(b) THEN
        IF (a.k = "float" /\ a.c \in {<<"nan">>, <<"inf">>, <<"-inf">>})
           \/ (b.k = "float" /\ b.c \in {<<"nan">>, <<"inf">>, <<"-inf">>})
        THEN a.k = "float" /\ b.k = "float" /\ a.c = b.c /\ a.c # <<"nan">>
        ELSE AsInt(a) = AsInt(b)
    ELSE IF a.k \in {"unicode", "str"} /\ b.k \in {"unicode", "str"} THEN a.c = b.c
    ELSE IF a.k = "list" /\ b.k = "list" THEN
        /\ Len(a.items) = Len(b.items)
        /\ \A i \in 1..Len(a.items) : PyEq(a.items[i], b.items[i])
    ELSE IF a.k = "dict" /\ b.k = "dict" THEN
        /\ DOMAIN a.f = DOMAIN b.f
        /\ \A key \in DOMAIN a.f : PyEq(a.f[key], b.f[key])
    ELSE a.k = b.k /\ a.k = "null"


---------------------------------------------------------------------------
(* The class JSONFactory: its attributes, and attribute lookup *)

\* JSONFactory.techniques: category letter -> attack template ids
techniques ==
    [C |-> <<10, 5>>, H |-> <<9>>, P |-> <<6, 2>>, T |-> <<11, 12>>,
     R |-> <<13>>, S |-> <<3, 1>>, X |-> <<0, 4, 7, 8>>]

\* list(techniques) of the dict itself: its keys in the dict's iteration order
TechniquesKeys == <<"C", "H", "P", "S", "R", "T", "X">>

\* the keys of JSONFactory.behavior (None is "null")
Kinds == {"int", "bool", "str", "unicode", "null"}

\* the weight every kind starts with, in tenths
InitialWeight == 100

BookKeeping ==
    {"fuzz_factor", "was_array", "is_fuzzed", "params", "techniques", "tech",
     "strong_fuzz", "behavior", "behavior_based"}

\* the value of a name that the instance's __dict__ does not hold
ClassAttr(name) ==
    CASE name \in {"fuzz_factor", "was_array", "is_fuzzed", "params"} -> VNull
      [] name \in {"strong_fuzz", "behavior_based"} -> VBool(FALSE)
      [] name \in {"techniques", "behavior", "tech"} -> VRef(name)

\* self.<name>
Attr(self, name) == IF name \in DOMAIN self THEN self[name] ELSE ClassAttr(name)

\* d[key] = v
Put(d, key, v) == [x \in DOMAIN d \cup {key} |-> IF x = key THEN v ELSE d[x]]

\* a small Python int as a number of the model (None when it is no such int)
IsSmallInt(v) == v.k = "int" /\ Len(v.mag) <= 2
SmallInt(v) == v.n * (Limb(v.mag, 1) + Base * Limb(v.mag, 2))

---------------------------------------------------------------------------
(* The external mutation tool and the random draws *)

\* what the radamsa process may write back, after the escaping of the
\* non-printable characters
OracleOut == {<<"Z">>, <<"%", "Z">>}

\* random.randint(-2147483647, 2147483647), two of its results
RandomInts == {-2147483647, 2147483647}

\* random.randint(lo, hi)
randint(lo, hi) == lo..hi

\* the attack template radamsa picks: any of the 14, or one of self.tech
AttackIds(tech) ==
    IF Len(tech) = 0 THEN randint(0, 13) ELSE {tech[i] : i \in 1..Len(tech)}

\* radamsa(to_fuzz): the template is filled with to_fuzz and the tool mutates
\* the whole, so every output of the tool is possible for every template
radamsa(to_fuzz, tech) ==
    {IF attack \in 0..13 THEN VStr(o) ELSE VError("KeyError")
        : attack \in AttackIds(tech), o \in OracleOut}

\* _radamsa(to_fuzz): no template
_radamsa(to_fuzz) == {VStr(o) : o \in OracleOut}

---------------------------------------------------------------------------
(* Behavior weights, in tenths *)

\* is_behavior_fuzz(kind): the possible answers
is_behavior_fuzz(self, weights, kind) ==
    IF Truthy(Attr(self, "behavior_based"))
    THEN {10 * r <= weights[kind] : r \in randint(1, 10)}
    ELSE {TRUE}

fuzz_behavior_scaled(self, weights, kind) ==
    IF Truthy(Attr(self, "behavior_based"))
    THEN IF weights[kind] = 100 THEN Attr(self, "fuzz_factor")
         ELSE IntOf(6 * weights[kind])
    ELSE Attr(self, "fuzz_factor")

\* fuzz_behavior(kind): the factor handed to the type mutator
fuzz_behavior(self, weights, kind) ==
    IF Truthy(Attr(self, "behavior_based"))
    THEN IF weights[kind] = 100 THEN Attr(self, "fuzz_factor")
         ELSE IntOf((6 * weights[kind]) \div 100)
    ELSE Attr(self, "fuzz_factor")

\* sensible_behavior(kind): the weights after the call
sensible_behavior(weights, kind) ==
    [_kind \in DOMAIN weights |->
        IF _kind # kind
        THEN IF weights[_kind] - 1 >= 10 THEN weights[_kind] - 1 ELSE 0
        ELSE IF weights[_kind] + 1 <= 100 THEN weights[_kind] + 1 ELSE 100]

---------------------------------------------------------------------------
(* Type mutators: the results of action i on a value *)

Chars_True  == <<"T", "r", "u", "e">>
Chars_False == <<"F", "a", "l", "s", "e">>

Reverse(chars) == [i \in 1..Len(chars) |-> chars[Len(chars) + 1 - i]]

PyStrOfBool(b) == VStr(IF b THEN Chars_True ELSE Chars_False)
PyFloatOfBool(b) == VFloat(IF b THEN "1.0" ELSE "0.0")
PyIntOfBool(b) == IntOf(IF b THEN 1 ELSE 0)

fuzz_null_actions(i, x) ==
    CASE i = 0 -> {VFloat("nan")}
      [] i = 1 -> {PyIntOfBool(Truthy(x))}
      [] i = 2 -> {VBool(Truthy(x))}
      [] i = 3 -> {VFloat("inf")}
      [] i = 4 -> {VDict(EmptyF)}
      [] i = 5 -> {VList(<<PyIntOfBool(Truthy(x))>>)}
      [] i = 6 -> {VFloat("-inf")}

fuzz_bool_actions(i, x) ==
    CASE i = 0 -> {VBool(~Truthy(x))}
      [] i = 1 -> {PyStrOfBool(Truthy(x))}
      [] i = 2 -> {PyStrOfBool(~Truthy(x))}
      [] i = 3 -> {PyIntOfBool(Truthy(x))}
      [] i = 4 -> {PyIntOfBool(~Truthy(x))}
      [] i = 5 -> {PyFloatOfBool(Truthy(x))}
      [] i = 6 -> {PyFloatOfBool(~Truthy(x))}

fuzz_int_actions(i, x) ==
    CASE i = 0 -> {PyXor(x, Mask_ffffff)}
      [] i = 1 -> {PyNeg(x)}
      [] i = 2 -> {PySquare(x)}
      [] i = 3 -> {PyOr(x, Mask_ff)}
      [] i = 4 -> {IntOf(r) : r \in RandomInts}
      [] i = 5 -> {VBool(Truthy(x))}
      [] i = 6 -> {PyOr(x, Mask_ff000000)}

fuzz_string_actions(i, x, tech) ==
    CASE i = 0 -> {[x EXCEPT !.c = Reverse(x.c)]}
      [] i = 1 -> radamsa(x, tech)
      [] i = 2 -> {VStr(<<>>)}
      [] i = 3 -> {VList(<<x>>)}
      [] i = 4 -> {VBool(FALSE)}
      [] i = 5 -> {VDict([param |-> r]) : r \in radamsa(x, tech)}
      [] i = 6 -> {IntOf(0)}

\* the mutator's table for a kind
Actions(kind, i, x, tech) ==
    CASE kind = "null" -> fuzz_null_actions(i, x)
      [] kind = "bool" -> fuzz_bool_actions(i, x)
      [] kind = "int" -> fuzz_int_actions(i, x)
      [] kind \in {"str", "unicode"} -> fuzz_string_actions(i, x, tech)

\* actions[random.randint(0, factor)](x): every outcome, as the index drawn,
\* the value returned and the error raised ("" for none).  An index with no
\* entry in the table is a KeyError, a factor that is no int a TypeError and
\* an empty range a ValueError.
Mutator(kind, x, factor, tech) ==
    IF ~IsSmallInt(factor) THEN {[i |-> -1, v |-> x, err |-> "TypeError"]}
    ELSE IF SmallInt(factor) < 0 THEN {[i |-> -1, v |-> x, err |-> "ValueError"]}
    ELSE UNION {IF i \in 0..6
                THEN {IF r.k = "error" THEN [i |-> i, v |-> x, err |-> r.c[1]]
                      ELSE IF r.k = "dict" /\ \E key \in DOMAIN r.f : r.f[key].k = "error"
                      THEN [i |-> i, v |-> x, err |-> "KeyError"]
                      ELSE [i |-> i, v |-> r, err |-> ""]
                        : r \in Actions(kind, i, x, tech)}
                ELSE {[i |-> i, v |-> x, err |-> "KeyError"]}
                : i \in randint(0, SmallInt(factor))}


---------------------------------------------------------------------------
(* __init__, initWithJSON and ffactor as functions of the instance *)

\* params.split(","): a str is held as its names and commas
RECURSIVE PySplit(_, _)
PySplit(tokens, piece) ==
    IF tokens = <<>> THEN <<piece>>
    ELSE IF Head(tokens) = "," THEN <<piece>> \o PySplit(Tail(tokens), "")
    ELSE PySplit(Tail(tokens), Head(tokens))

JSONFactory_init_behavior_only(t, p, sf, bb) ==
    IF Truthy(bb) /\ (t.k # "null" \/ p.k # "null" \/ sf # VBool(FALSE))
    THEN [err |-> "EnvironmentError", self |-> EmptyF]
    ELSE IF p.k \notin {"null", "str"}
    THEN [err |-> "AttributeError", self |-> EmptyF]
    ELSE [err |-> "",
          self |->
            [behavior_based |-> bb,
             strong_fuzz |-> sf,
             params |-> IF p.k = "null" THEN p ELSE VNames(PySplit(p.c, "")),
             tech |-> CASE t.k = "null" -> VLetters(<<>>)
                        [] t.k = "ref" -> VLetters(TechniquesKeys)
                        [] OTHER -> VLetters(t.c),
             fuzz_factor |-> IntOf(0),
             is_fuzzed |-> VBool(FALSE),
             was_array |-> VBool(FALSE)]]

\* JSONFactory(techniques=t, params=p, strong_fuzz=sf, behavior_based=bb):
\* the new instance's __dict__, or the error raised
JSONFactory_init(t, p, sf, bb) ==
    IF Truthy(bb) /\ (t.k # "null" \/ p.k # "null" \/ sf # VBool(FALSE))
    THEN [err |-> "EnvironmentError", self |-> EmptyF]
    ELSE IF Truthy(sf) /\ (t.k # "null" \/ p.k # "null" \/ bb # VBool(FALSE))
    THEN [err |-> "EnvironmentError", self |-> EmptyF]
    ELSE IF p.k \notin {"null", "str"}
    THEN [err |-> "AttributeError", self |-> EmptyF]
    ELSE [err |-> "",
          self |->
            [behavior_based |-> bb,
             strong_fuzz |-> sf,
             params |-> IF p.k = "null" THEN p ELSE VNames(PySplit(p.c, "")),
             tech |-> CASE t.k = "null" -> VLetters(<<>>)
                        [] t.k = "ref" -> VLetters(TechniquesKeys)
                        [] OTHER -> VLetters(t.c),
             fuzz_factor |-> IntOf(0),
             is_fuzzed |-> VBool(FALSE),
             was_array |-> VBool(FALSE)]]

\* the ids of a list of Python ints
IdsOf(seq) == [i \in 1..Len(seq) |-> IntOf(seq[i])]

\* the loop "for t in tech: if t in self.techniques.keys(): self.tech += ..."
\* on the instance dict d, from position i of the letters
RECURSIVE TechLoop(_, _, _)
TechLoop(st, letters, i) ==
    IF i > Len(letters) \/ st.err # "" THEN st
    ELSE IF letters[i] \notin DOMAIN techniques THEN TechLoop(st, letters, i + 1)
    ELSE LET ids == techniques[letters[i]]
         IN  IF "tech" \notin DOMAIN st.self \/ st.self["tech"].k = "ref"
             THEN \* self.tech is the class's list: extended in place, then bound
                  TechLoop([st EXCEPT !.ctech = @ \o ids,
                                      !.self = Put(@, "tech", VRef("tech"))],
                           letters, i + 1)
             ELSE IF st.self["tech"].k = "list"
             THEN TechLoop([st EXCEPT !.self =
                                Put(@, "tech", VList(st.self["tech"].items \o IdsOf(ids)))],
                           letters, i + 1)
             ELSE [st EXCEPT !.err = "TypeError"]

\* json.loads(json_obj) and the assignment to self.__dict__
LoadedDict(j) ==
    IF ~j.ok THEN [dummy |-> VStr(<<"d", "u", "m", "m", "y">>)]
    ELSE IF j.v.k = "dict" THEN j.v.f
    ELSE [array |-> j.v, was_array |-> VBool(TRUE)]

\* the assignments that follow: the saved configuration is put back
Restore(self, d) ==
    LET d1 == Put(d, "params", Attr(self, "params"))
        d2 == Put(d1, "fuzz_factor", Attr(self, "fuzz_factor"))
        d3 == Put(d2, "is_fuzzed", VBool(FALSE))
        d4 == Put(d3, "techniques", Attr(self, "techniques"))
        d5 == Put(d4, "strong_fuzz", Attr(self, "strong_fuzz"))
        d6 == Put(d5, "behavior", Attr(self, "behavior"))
    IN  Put(d6, "behavior_based", Attr(self, "behavior_based"))

\* initWithJSON(json_obj) on the instance self, with the class's tech list
initWithJSON(self, ctech, j) ==
    LET tech == Attr(self, "tech")
        d    == Restore(self, LoadedDict(j))
        st0  == [self |-> d, ctech |-> ctech, err |-> ""]
        st1  == IF tech.k = "letters" THEN TechLoop(st0, tech.c, 1) ELSE st0
    IN  IF st1.err # "" THEN st1
        ELSE [st1 EXCEPT !.self = Put(@, "tech", Attr(st1.self, "tech"))]

ffactor_unchecked(self, factor) ==
    [err |-> "", self |-> Put(self, "fuzz_factor", factor)]

\* ffactor(factor)
ffactor(self, factor) ==
    IF ~(\E i \in 0..6 : PyEq(factor, IntOf(i)))
    THEN [err |-> "ValueError", self |-> self]
    ELSE [err |-> "", self |-> Put(self, "fuzz_factor", factor)]


---------------------------------------------------------------------------
(* The walker.  A walk carries W: the instance's __dict__ (self), the      *)
(* class's tech list (ctech), the error raised so far (err, "" for none),  *)
(* the (kind, index) pairs the type mutators drew (draws) and the value    *)
(* returned (ret).  Every operator gives the set of possible outcomes.     *)

Cleaned == {"fuzz_factor", "is_fuzzed", "params", "techniques", "tech",
            "strong_fuzz", "behavior", "behavior_based"}

\* clean_result(result): del result[key] for the eight keys
clean_result(result) ==
    IF Cleaned \subseteq DOMAIN result
    THEN [err |-> "", d |-> [x \in DOMAIN result \ Cleaned |-> result[x]]]
    ELSE [err |-> "KeyError", d |-> result]

\* the dict a walk is at: elements, reached from self.__dict__ along path
RECURSIVE GetPath(_, _)
GetPath(d, path) ==
    IF path = <<>> THEN d ELSE GetPath(d[Head(path)].f, Tail(path))

\* elements[key] = v
RECURSIVE SetPath(_, _, _, _)
SetPath(d, path, key, v) ==
    IF path = <<>> THEN Put(d, key, v)
    ELSE Put(d, Head(path),
             [d[Head(path)] EXCEPT !.f = SetPath(@, Tail(path), key, v)])

\* self.tech as radamsa reads it: the template ids (-1 for an element that
\* is no template id)
TechIds(W) ==
    LET tech == Attr(W.self, "tech")
    IN  CASE tech.k = "ref" -> W.ctech
          [] tech.k = "list" ->
                [i \in 1..Len(tech.items) |->
                    IF IsSmallInt(tech.items[i]) THEN SmallInt(tech.items[i]) ELSE -1]
          [] OTHER -> [i \in 1..Len(tech.c) |-> -1]

\* the Python type a branch of the walker tests for, as a key of behavior
KindOf(v) == v.k

\* json.loads(json.dumps(v)): every str comes back as unicode
RECURSIVE Reparse(_)
Reparse(v) ==
    CASE v.k = "str" -> [v EXCEPT !.k = "unicode"]
      [] v.k = "list" -> [v EXCEPT !.items = [i \in 1..Len(v.items) |-> Reparse(v.items[i])]]
      [] v.k = "dict" -> [v EXCEPT !.f = [key \in DOMAIN v.f |-> Reparse(v.f[key])]]
      [] OTHER -> v

\* "if self.is_behavior_fuzz(kind): x = self.fuzz_<kind>(x, self.fuzz_behavior(kind))":
\* the walks that follow, each with whether x was selected (sel) and the
\* value assigned (v)
MutateScalar(W, x) ==
    UNION {IF ~selected THEN {[W |-> W, sel |-> FALSE, v |-> x]}
           ELSE {[W |-> [W EXCEPT !.err = m.err,
                                  !.draws = @ \cup {<<KindOf(x), m.i>>}],
                  sel |-> TRUE,
                  v |-> m.v]
                    : m \in Mutator(KindOf(x), x,
                                    fuzz_behavior(W.self, behavior, KindOf(x)),
                                    TechIds(W))}
           : selected \in is_behavior_fuzz(W.self, behavior, KindOf(x))}

\* arr.index(element): the first position holding a value equal to element,
\* 0 when there is none (a ValueError)
IndexOfFirst(arr, element) ==
    IF \E j \in 1..Len(arr) : PyEq(arr[j], element)
    THEN CHOOSE j \in 1..Len(arr) :
            /\ PyEq(arr[j], element)
            /\ \A h \in 1..(j - 1) : ~PyEq(arr[h], element)
    ELSE 0

\* the position "arr[arr.index(element)] = ..." writes, for the element the
\* loop took from position i of the snapshot
Index(arr, element, i) == IndexOfFirst(arr, element)

\* arr[arr.index(element)] = v
StoreAtIndex(W, arr, element, i, v) ==
    LET j == Index(arr, element, i)
    IN  IF W.err # "" THEN [W |-> W, arr |-> arr]
        ELSE IF j = 0 THEN [W |-> [W EXCEPT !.err = "ValueError"], arr |-> arr]
        ELSE [W |-> W, arr |-> [arr EXCEPT ![j] = v]]

RECURSIVE fuzz_elements(_, _, _)
RECURSIVE fuzz_array(_, _, _)
RECURSIVE ArrayLoop(_, _, _, _, _)
RECURSIVE WalkKeys(_, _, _, _)

\* the child session fuzz_array builds for a dict element, run to its end
ChildFuzz(W, element) ==
    LET self == W.self
        made == JSONFactory_init(Attr(self, "techniques"), Attr(self, "params"),
                                 VBool(FALSE), Attr(self, "behavior_based"))
        init == initWithJSON(made.self, W.ctech, [ok |-> TRUE, v |-> Reparse(element)])
        set  == ffactor(init.self, Attr(self, "fuzz_factor"))
    IN  IF made.err # "" THEN {[W EXCEPT !.err = made.err]}
        ELSE IF init.err # "" THEN {[W EXCEPT !.err = init.err, !.ctech = init.ctech]}
        ELSE IF set.err # "" THEN {[W EXCEPT !.err = set.err, !.ctech = init.ctech]}
        ELSE {[C EXCEPT !.self = self, !.ret = Reparse(C.ret)]
                : C \in fuzz_elements([W EXCEPT !.self = set.self, !.ctech = init.ctech],
                                      <<>>, Attr(set.self, "fuzz_factor"))}

\* one turn of "for element in tmp_arr" for the element at position i
ArrayStep(W, arr, element, i, factor) ==
    CASE element.k \in {"str", "unicode", "int", "bool", "null"} ->
            {IF m.sel THEN StoreAtIndex(m.W, arr, element, i, m.v)
             ELSE [W |-> m.W, arr |-> arr]
                : m \in MutateScalar(W, element)}
      [] element.k = "list" ->
            {LET inplace == [arr EXCEPT ![i] = r.arr]
             IN  StoreAtIndex(r.W, inplace, r.arr, i, r.arr)
                : r \in fuzz_array(W, element, factor)}
      [] element.k = "dict" ->
            {StoreAtIndex(C, arr, element, i, C.ret) : C \in ChildFuzz(W, element)}
      [] OTHER -> {[W |-> W, arr |-> arr]}

ArrayLoop(W, arr, tmp_arr, i, factor) ==
    IF W.err # "" \/ i > Len(tmp_arr) THEN {[W |-> W, arr |-> arr]}
    ELSE UNION {ArrayLoop(r.W, r.arr, tmp_arr, i + 1, factor)
                    : r \in ArrayStep(W, arr, tmp_arr[i], i, factor)}

\* fuzz_array(arr, factor): the walks that follow, each with the list arr
\* has become
fuzz_array(W, arr, factor) ==
    {[W |-> r.W, arr |-> VList(r.arr)]
        : r \in ArrayLoop(W, arr.items, arr.items, 1, factor)}


EligibleUnfiltered(self, elements) ==
    {element \in DOMAIN elements : element \notin BookKeeping}

\* the keys of elements the loop does not pass over
Eligible(self, elements) ==
    {element \in DOMAIN elements :
        /\ element \notin BookKeeping
        /\ LET params == Attr(self, "params")
           IN  params.k = "null" \/ \E i \in 1..Len(params.c) : params.c[i] = element}

\* the body of "for element in elements.keys()" for one key
Visit(W, path, element, factor) ==
    LET x == GetPath(W.self, path)[element]
    IN  CASE x.k = "dict" ->
                fuzz_elements(W, path \o <<element>>, factor)
          [] x.k = "list" ->
                {[r.W EXCEPT !.self = SetPath(@, path, element, r.arr)]
                    : r \in fuzz_array(W, x, factor)}
          [] x.k \in {"int", "bool", "unicode", "str", "null"} ->
                {IF m.sel /\ m.W.err = ""
                 THEN [m.W EXCEPT !.self = SetPath(@, path, element, m.v)]
                 ELSE m.W
                    : m \in MutateScalar(W, x)}
          [] OTHER -> {W}

\* the loop over elements.keys(), whose order is the dict's own: any order
WalkKeys(W, path, remaining, factor) ==
    IF W.err # "" \/ remaining = {} THEN {W}
    ELSE UNION {UNION {WalkKeys(W2, path, remaining \ {element}, factor)
                        : W2 \in Visit(W, path, element, factor)}
                : element \in remaining}

CompleteStillWrapped(W) ==
    LET res == clean_result(W.self)
    IN  IF W.err # "" THEN W
        ELSE IF res.err # "" THEN [W EXCEPT !.err = res.err]
        ELSE IF Truthy(Attr(W.self, "was_array"))
        THEN [W EXCEPT !.ret = VDict(res.d)]
        ELSE [W EXCEPT !.self = Put(@, "is_fuzzed", VBool(TRUE)), !.ret = VDict(res.d)]

\* the end of fuzz_elements in structural mode (lines 209-213)
Complete(W) ==
    LET res == clean_result(W.self)
    IN  IF W.err # "" THEN W
        ELSE IF res.err # "" THEN [W EXCEPT !.err = res.err]
        ELSE IF Truthy(Attr(W.self, "was_array"))
        THEN IF "array" \in DOMAIN res.d
             THEN [W EXCEPT !.ret = res.d["array"]]
             ELSE [W EXCEPT !.err = "KeyError"]
        ELSE [W EXCEPT !.self = Put(@, "is_fuzzed", VBool(TRUE)), !.ret = VDict(res.d)]

\* fuzz_elements(elements, factor), elements being the dict at path
fuzz_elements(W, path, factor) ==
    LET self == W.self
        res  == clean_result(self)
    IN  IF Truthy(Attr(self, "is_fuzzed")) THEN {[W EXCEPT !.err = "ValueError"]}
        ELSE IF Truthy(Attr(self, "strong_fuzz"))
        THEN IF res.err # "" THEN {[W EXCEPT !.err = res.err]}
             ELSE IF Truthy(Attr(self, "was_array"))
             THEN IF "array" \in DOMAIN res.d
                  THEN {[W EXCEPT !.ret = r] : r \in _radamsa(res.d["array"])}
                  ELSE {[W EXCEPT !.err = "KeyError"]}
             ELSE {[W EXCEPT !.ret = r] : r \in _radamsa(VDict(res.d))}
        ELSE {Complete(W2)
                : W2 \in WalkKeys(W, path, Eligible(self, GetPath(self, path)), factor)}


---------------------------------------------------------------------------
(* The calls a program makes, as actions.  last records the call: the      *)
(* operation, the session, the arguments, the error raised ("" for none),  *)
(* the value returned and the draws of the type mutators.                  *)

Called(op, s, args, err, out, draws) ==
    [op |-> op, s |-> s, args |-> args, err |-> err, out |-> out, draws |-> draws]

\* the longest class tech list the model follows
MaxTechLen == 4

\* the fuzz results one initialization is followed through
MaxReturned == 2

\* s = JSONFactory(techniques=t, params=p, strong_fuzz=sf, behavior_based=bb)
New(s, t, p, sf, bb) ==
    LET made == JSONFactory_init(t, p, VBool(sf), VBool(bb))
    IN  /\ IF made.err = ""
           THEN /\ obj' = [obj EXCEPT ![s] = made.self]
                /\ live' = live \cup {s}
                /\ input' = [input EXCEPT ![s] = VNull]
                /\ returned' = [returned EXCEPT ![s] = 0]
           ELSE UNCHANGED <<obj, live, input, returned>>
        /\ last' = Called("new", s, <<t, p, VBool(sf), VBool(bb)>>, made.err, VNull, {})
        /\ UNCHANGED <<classTech, behavior>>

\* s.initWithJSON(json_obj), json_obj given as what json.loads makes of it; an
\* error in the technique loop leaves the instance as the loop had made it.
\* The call is followed while the class tech list is no longer than bound.
InitWithJSONWithin(s, j, bound) ==
    LET r == initWithJSON(obj[s], classTech, j)
    IN  /\ s \in live
        /\ Len(r.ctech) <= bound
        /\ obj' = [obj EXCEPT ![s] = r.self]
        /\ input' = [input EXCEPT ![s] = IF j.ok THEN j.v ELSE VDict(LoadedDict(j))]
        /\ returned' = [returned EXCEPT ![s] = 0]
        /\ classTech' = r.ctech
        /\ last' = Called("initWithJSON", s, <<j.v>>, r.err, VNull, {})
        /\ UNCHANGED <<live, behavior>>

\* s.ffactor(factor)
FFactor(s, factor) ==
    LET r == ffactor(obj[s], factor)
    IN  /\ s \in live
        /\ obj' = [obj EXCEPT ![s] = r.self]
        /\ last' = Called("ffactor", s, <<factor>>, r.err, VNull, {})
        /\ UNCHANGED <<live, classTech, behavior, input, returned>>

\* s.fuzz(): the text returned is json.dumps of out, or out itself in strong mode
FuzzWithin(s, bound) ==
    /\ s \in live
    /\ returned[s] < MaxReturned
    /\ \E W \in fuzz_elements([self |-> obj[s], ctech |-> classTech, err |-> "",
                               draws |-> {}, ret |-> VNull],
                              <<>>, Attr(obj[s], "fuzz_factor")) :
          /\ Len(W.ctech) <= bound
          /\ obj' = [obj EXCEPT ![s] = W.self]
          /\ classTech' = W.ctech
          /\ returned' = [returned EXCEPT ![s] = IF W.err = "" THEN @ + 1 ELSE @]
          /\ last' = Called("fuzz", s, <<>>, W.err,
                            IF W.err = "" THEN W.ret ELSE VNull, W.draws)
    /\ UNCHANGED <<live, behavior, input>>

\* the two calls while the class tech list is no longer than MaxTechLen
InitWithJSON(s, j) == InitWithJSONWithin(s, j, MaxTechLen)

Fuzz(s) == FuzzWithin(s, MaxTechLen)

\* s.sensible_behavior(kind)
SensibleBehavior(s, kind) ==
    /\ s \in live
    /\ behavior' = sensible_behavior(behavior, kind)
    /\ last' = Called("sensible_behavior", s, <<MkV(kind)>>, "", VNull, {})
    /\ UNCHANGED <<obj, live, classTech, input, returned>>

InitOf(sessions) ==
    /\ obj = [s \in sessions |-> EmptyF]
    /\ live = {}
    /\ classTech = <<>>
    /\ behavior = [kind \in Kinds |-> InitialWeight]
    /\ input = [s \in sessions |-> VNull]
    /\ returned = [s \in sessions |-> 0]
    /\ last = Called("none", "", <<>>, "", VNull, {})

---------------------------------------------------------------------------
(* The documents and arguments the sessions are given *)

Text(chars) == VUnicode(chars)

Doc(v) == [ok |-> TRUE, v |-> v]
\* a text json.loads rejects
Malformed == [ok |-> FALSE, v |-> VNull]

\* {"a": 1, "b": 2}
Doc_ab == VDict([a |-> IntOf(1), b |-> IntOf(2)])
\* {"a": {"a": 1, "b": 2}, "b": {"a": 3}}
Doc_nested == VDict([a |-> VDict([a |-> IntOf(1), b |-> IntOf(2)]),
                     b |-> VDict([a |-> IntOf(3)])])
\* {"a": {"b": null}}
Doc_one == VDict([a |-> VDict([b |-> VNull])])
\* {"a": 1, "fuzz_factor": 9}
Doc_factor == VDict([a |-> IntOf(1), fuzz_factor |-> IntOf(9)])
\* {"a": [true, 0]}
Doc_list == VDict([a |-> VList(<<VBool(TRUE), IntOf(0)>>)])
\* {"a": [1, 1]}
Doc_equal == VDict([a |-> VList(<<IntOf(1), IntOf(1)>>)])
\* {"b": ["ab", "ba"]}
Doc_texts == VDict([b |-> VList(<<Text(<<"a", "b">>), Text(<<"b", "a">>)>>)])

Docs ==
    {Doc(Doc_ab), Doc(Doc_nested), Doc(Doc_one), Doc(Doc_factor), Doc(Doc_list),
     Doc(Doc_equal), Doc(Doc_texts), Doc(IntOf(5)), Doc(VNull),
     Doc(VList(<<IntOf(5)>>)), Malformed}

Letters_CQ == VStr(<<"C", "Q">>)
Params_a == VStr(<<"a">>)

\* constructor arguments (techniques, params, strong_fuzz, behavior_based):
\* the default session, a field filter, strong mode, behavior mode, and a
\* combination the constructor refuses
Configs ==
    {<<VNull, VNull, FALSE, FALSE>>, <<VNull, Params_a, FALSE, FALSE>>,
     <<VNull, VNull, TRUE, FALSE>>, <<VNull, VNull, FALSE, TRUE>>,
     <<VNull, VNull, TRUE, TRUE>>}

\* factor 6 opens every action of the tables and factor 0 only the first;
\* 7 is refused
Factors == {IntOf(0), IntOf(6), IntOf(7)}

Init == InitOf({"A"})

Next ==
    \/ \E cfg \in Configs : New("A", cfg[1], cfg[2], cfg[3], cfg[4])
    \/ \E j \in Docs : InitWithJSON("A", j)
    \/ \E x \in Factors : FFactor("A", x)
    \/ Fuzz("A")

Spec == Init /\ [][Next]_vars

---------------------------------------------------------------------------
(* The constructor's arguments in every combination, and factors beyond    *)
(* both ends of the range                                                  *)

TechArgs == {VNull, Letters_CQ}
ParamArgs == {VNull, Params_a}
\* the ends of the range and the integers next to them
FactorArgs == {IntOf(-1), IntOf(0), IntOf(6), IntOf(7)}
DocsConfig == {Doc(Doc_factor), Doc(IntOf(5))}

NextConfig ==
    \/ \E t \in TechArgs, p \in ParamArgs, sf \in BOOLEAN, bb \in BOOLEAN :
            New("A", t, p, sf, bb)
    \/ \E j \in DocsConfig : InitWithJSON("A", j)
    \/ \E x \in FactorArgs : FFactor("A", x)
    \/ Fuzz("A")

SpecConfig == Init /\ [][NextConfig]_vars

---------------------------------------------------------------------------
(* Two sessions of one program *)

Sessions == {"A", "B"}

\* the calls of sensible_behavior the two-session model follows
MaxDrift == 2

DocsShared == {Doc(Doc_one)}

InitShared == InitOf(Sessions)

NextShared ==
    \/ \E s \in Sessions, t \in TechArgs : New(s, t, VNull, FALSE, FALSE)
    \/ \E s \in Sessions, j \in DocsShared : InitWithJSON(s, j)
    \/ \E s \in Sessions : Fuzz(s)
    \/ \E s \in Sessions :
            /\ behavior["null"] > InitialWeight - MaxDrift
            /\ SensibleBehavior(s, "int")

SpecShared == InitShared /\ [][NextShared]_vars

---------------------------------------------------------------------------
(* Behavior mode: the weights drift as sensible_behavior is called *)

\* {"a": 1}, {"a": true}, {"a": null}, {"a": "ab"}
DocsBehavior ==
    {Doc(VDict([a |-> v])) : v \in {IntOf(1), VBool(TRUE), VNull, Text(<<"a", "b">>)}}

ConfigsBehavior == {<<VNull, VNull, FALSE, FALSE>>, <<VNull, VNull, FALSE, TRUE>>}

FactorsBehavior == {IntOf(0), IntOf(3), IntOf(6)}

ReinforcedKinds == {"int"}

NextBehavior ==
    \/ \E cfg \in ConfigsBehavior : New("A", cfg[1], cfg[2], cfg[3], cfg[4])
    \/ \E j \in DocsBehavior : InitWithJSON("A", j)
    \/ \E x \in FactorsBehavior : FFactor("A", x)
    \/ Fuzz("A")
    \/ \E kind \in ReinforcedKinds : SensibleBehavior("A", kind)

SpecBehavior == Init /\ [][NextBehavior]_vars


---------------------------------------------------------------------------
(* An object inside an array: fuzz_array hands it to a child session *)

\* the longest class tech list followed where child sessions are built: the
\* two ids of "C" and the fourteen a child adds
MaxChildTech == 16

\* {"a": [{"b": null}]}
Doc_child == VDict([a |-> VList(<<VDict([b |-> VNull])>>)])

DocsChild == {Doc(Doc_child), Doc(Doc_ab)}

Letters_C == VStr(<<"C">>)

\* the configurations the constructor accepts for a structural session: no
\* options, techniques, a field filter, behavior mode
ConfigsChild ==
    {<<VNull, VNull, FALSE, FALSE>>, <<Letters_C, VNull, FALSE, FALSE>>,
     <<VNull, Params_a, FALSE, FALSE>>, <<VNull, VNull, FALSE, TRUE>>}

NextChild ==
    \/ \E cfg \in ConfigsChild : New("A", cfg[1], cfg[2], cfg[3], cfg[4])
    \/ \E j \in DocsChild : InitWithJSONWithin("A", j, MaxChildTech)
    \/ \E x \in Factors : FFactor("A", x)
    \/ FuzzWithin("A", MaxChildTech)

SpecChild == Init /\ [][NextChild]_vars

---------------------------------------------------------------------------
(* Claims *)

Structural(s) == s \in live /\ ~Truthy(Attr(obj[s], "strong_fuzz"))
FuzzReturned == last.op = "fuzz" /\ last.err = ""

\* C1: once fuzz has returned a result, a second fuzz on the same session
\* without a new initWithJSON is rejected: no initialization ever yields
\* two results.  (The code lets strong mode and wrapped inputs through.)
C1_SecondFuzzRejected == \A s \in live : returned[s] <= 1

\* C9: is_fuzzed becomes true only when a fuzz has walked the whole document
\* and returned, so the first fuzz after initWithJSON never fails with the
\* already-fuzzed ValueError.  (The code sets the flag at the end of each
\* nested walk.)
C9_FirstFuzzNeverConsumed ==
    \A s \in live :
        /\ Truthy(Attr(obj[s], "is_fuzzed")) => returned[s] >= 1
        /\ ~(last.op = "fuzz" /\ last.s = s /\ last.err = "ValueError" /\ returned[s] = 0)

\* what one application of the matching type mutator, or none, makes of x
OnceOrNot(x) ==
    IF x.k \in {"int", "bool", "null", "str", "unicode"}
    THEN {x} \cup UNION {Actions(x.k, i, x, <<>>) : i \in 0..6}
    ELSE {x}

\* C10: after a fuzz that returned, every position of an array of scalars
\* holds what one application of its element's mutator, or none, makes of
\* the original element at that position.
C10_PositionsIndependent ==
    \A s \in live :
        (FuzzReturned /\ last.s = s /\ returned[s] = 1 /\ Structural(s)
            /\ input[s].k = "dict") =>
            \A key \in DOMAIN input[s].f \cap DOMAIN last.out.f :
                (input[s].f[key].k = "list" /\ last.out.f[key].k = "list") =>
                    \A i \in 1..Len(input[s].f[key].items) :
                        last.out.f[key].items[i] \in OnceOrNot(input[s].f[key].items[i])


\* the names of the session's param_filter
FilterOf(s) ==
    LET params == Attr(obj[s], "params")
    IN  {params.c[i] : i \in 1..Len(params.c)}

Filtered(s) == s \in live /\ Attr(obj[s], "params").k = "names"

\* out keeps every field of in whose name is not in names, at every level
RECURSIVE Preserved(_, _, _)
Preserved(in, out, names) ==
    CASE in.k = "dict" ->
            /\ out.k = "dict"
            /\ \A key \in DOMAIN in.f :
                IF key \notin names
                THEN key \in DOMAIN out.f /\ out.f[key] = in.f[key]
                ELSE key \in DOMAIN out.f /\ Preserved(in.f[key], out.f[key], names)
      [] in.k = "list" ->
            (out.k = "list" /\ Len(out.items) = Len(in.items)) =>
                \A i \in 1..Len(in.items) :
                    in.items[i].k = "dict" => Preserved(in.items[i], out.items[i], names)
      [] OTHER -> TRUE

NoBookKeepingField(doc) == doc.k = "dict" => DOMAIN doc.f \cap BookKeeping = {}

C8_WrappedReturnedBare ==
    \A s \in live :
        (FuzzReturned /\ last.s = s /\ Structural(s) /\ ~Filtered(s)
            /\ input[s].k # "dict") =>
            /\ "array" \in DOMAIN obj[s] /\ last.out = obj[s]["array"]
            /\ last.out.k = "dict" =>
                    DOMAIN last.out.f \cap (BookKeeping \cup {"array"}) = {}
            /\ (input[s] = IntOf(5) /\ returned[s] = 1
                    /\ Attr(obj[s], "fuzz_factor") = IntOf(0)) =>
                    last.out = IntOf(16777210)

\* the input 5 has been fuzzed once at factor 0 and 16777210 came back
C8_Witness ==
    /\ FuzzReturned /\ Structural("A") /\ ~Filtered("A")
    /\ input["A"] = IntOf(5) /\ returned["A"] = 1
    /\ Attr(obj["A"], "fuzz_factor") = IntOf(0)
    /\ last.out = IntOf(16777210)


---------------------------------------------------------------------------
(* Claims about sessions side by side *)

\* the template ids session s draws from
TechOf(s) ==
    LET tech == Attr(obj[s], "tech")
    IN  CASE tech.k = "ref" -> IdsOf(classTech)
          [] tech.k = "list" -> tech.items
          [] OTHER -> <<>>

\* C2: no state is shared across sessions: a call on session a leaves the
\* technique ids and the behavior weights of every other session as they
\* were, and a session constructed without techniques has no technique ids
\* once it is initialized, whatever other sessions were given.
C2_NothingShared ==
    [][\A a \in Sessions :
        last'.s = a =>
            /\ \A b \in live \ {a} : TechOf(b)' = TechOf(b) /\ behavior' = behavior
            /\ (last'.op = "initWithJSON" /\ Attr(obj[a], "tech") = VLetters(<<>>)) =>
                    TechOf(a)' = <<>>]_vars

---------------------------------------------------------------------------
(* Claims about the behavior weights *)

Min2(a, b) == IF a <= b THEN a ELSE b

\* C4: in tenths, one call sensible_behavior(k) takes weight[k] to
\* min(weight[k] + 1, 100) and every other weight w to max(w - 1, 0): no
\* weight drops by more than one tenth in a call.
C4_OneTenthPerCall ==
    [][last'.op = "sensible_behavior" =>
        \A kind \in Kinds :
            behavior'[kind] =
                IF kind = last'.args[1].k
                THEN Min2(behavior[kind] + 1, 100)
                ELSE Max2(behavior[kind] - 1, 0)]_vars

\* the factor the claim expects the type mutator of kind to draw under
effective_factor(s, kind) ==
    IF ~Truthy(Attr(obj[s], "behavior_based")) \/ behavior[kind] = 100
    THEN SmallInt(Attr(obj[s], "fuzz_factor"))
    ELSE (6 * behavior[kind]) \div 100

\* C7: every index a type mutator draws during a fuzz lies in
\* 0..effective_factor of its kind, hence in 0..6, an entry of the action
\* table.
C7_IndexWithinEffectiveFactor ==
    \A s \in live :
        (last.op = "fuzz" /\ last.s = s) =>
            \A d \in last.draws :
                /\ d[2] \in 0..6
                /\ d[2] <= effective_factor(s, d[1])

\* in behavior mode with the weight of null at 5.0 and fuzz_factor 0, the
\* null mutator has drawn index 3
C7_Witness ==
    /\ last.op = "fuzz" /\ last.s = "A" /\ "A" \in live
    /\ Truthy(Attr(obj["A"], "behavior_based"))
    /\ Attr(obj["A"], "fuzz_factor") = IntOf(0)
    /\ behavior["null"] = 50
    /\ <<"null", 3>> \in last.draws

---------------------------------------------------------------------------
(* Claims about construction and the factor *)

\* the arguments ask for behavior mode or strong mode together with
\* something else
Conflict(args) ==
    \/ Truthy(args[4]) /\ (args[1] # VNull \/ args[2] # VNull \/ Truthy(args[3]))
    \/ Truthy(args[3]) /\ (args[1] # VNull \/ args[2] # VNull \/ Truthy(args[4]))

\* the modes a session has active: techniques count while the letters the
\* constructor stored are still in place
ActiveModes(self) ==
    {mode \in {"strong", "behavior", "selective"} :
        CASE mode = "strong" -> Truthy(Attr(self, "strong_fuzz"))
          [] mode = "behavior" -> Truthy(Attr(self, "behavior_based"))
          [] mode = "selective" ->
                \/ Attr(self, "params") # VNull
                \/ Attr(self, "tech").k = "letters" /\ Attr(self, "tech").c # <<>>}

\* C5: a construction that asks for behavior mode or strong mode together
\* with techniques, a param filter or the other mode raises an error and
\* makes no session, so no session has more than one of strong mode,
\* behavior mode and (param filter or techniques) active.
C5_ConflictsRejected ==
    /\ [](last.op = "new" /\ Conflict(last.args) => last.err = "EnvironmentError")
    /\ [](\A s \in live : Cardinality(ActiveModes(obj[s])) <= 1)
    /\ [][last'.op = "new" /\ Conflict(last'.args) =>
            obj' = obj /\ live' = live]_vars

\* strong mode with a param filter has been refused while an earlier
\* session stands
C5_Witness ==
    /\ last.op = "new" /\ last.err = "EnvironmentError"
    /\ last.args = <<VNull, Params_a, VBool(TRUE), VBool(FALSE)>>
    /\ "A" \in live

\* C6: ffactor refuses every integer outside 0..6 and leaves the stored
\* factor as it was, so every session's fuzz_factor is an integer of 0..6
\* at all times, also after initWithJSON of a document with a field named
\* fuzz_factor.
C6_FactorInRange ==
    /\ [](\A s \in live : \E f \in 0..6 : Attr(obj[s], "fuzz_factor") = IntOf(f))
    /\ []((last.op = "ffactor" /\ last.args[1] \notin {IntOf(f) : f \in 0..6})
            => last.err = "ValueError")
    /\ [][last'.op = "ffactor" /\ last'.err # "" => obj' = obj]_vars

\* ffactor(7) has been refused on a session that holds factor 6 and the
\* document {"a": 1, "fuzz_factor": 9}
C6_Witness ==
    /\ last.op = "ffactor" /\ last.args = <<IntOf(7)>> /\ last.err = "ValueError"
    /\ "A" \in live /\ Attr(obj["A"], "fuzz_factor") = IntOf(6)
    /\ input["A"] = Doc_factor


---------------------------------------------------------------------------
(* Claims about child sessions *)

\* the document holds an object as an element of an array field
HoldsObjectInArray(doc) ==
    /\ doc.k = "dict"
    /\ \E key \in DOMAIN doc.f :
        /\ doc.f[key].k = "list"
        /\ \E i \in 1..Len(doc.f[key].items) : doc.f[key].items[i].k = "dict"

IdSet(ids) == {ids[i] : i \in 1..Len(ids)}

\* C11: in every configuration the constructor accepts, the fuzz of a
\* document with an object inside an array builds and runs the child session
\* without a configuration or type error, and the child draws from the
\* technique ids its parent was given: a parent that has technique ids has
\* the same ids after the fuzz.
C11_ChildInheritsAndRuns ==
    /\ [](\A s \in live :
            (last.op = "fuzz" /\ last.s = s /\ HoldsObjectInArray(input[s])) =>
                last.err \notin {"EnvironmentError", "AttributeError", "TypeError"})
    /\ [][\A s \in live :
            (last'.op = "fuzz" /\ last'.s = s /\ HoldsObjectInArray(input[s])
                /\ TechOf(s) # <<>>) =>
                IdSet(TechOf(s)') = IdSet(TechOf(s))]_vars

=============================================================================
